---- MODULE Spec2Model ----
(***************************************************************************)
(* A model of the shared helpers of the libvirt Ruby bindings              *)
(* (ext/libvirt/common.h, ext/libvirt/common.c) and of the Network class   *)
(* built from them (ext/libvirt/network.c).                                *)
(*                                                                         *)
(* Five specifications share the module:                                   *)
(*   SpecList     ruby_libvirt_generate_list, statement by statement       *)
(*   SpecListAll  the gen_list_all macro, statement by statement, and the  *)
(*                collector finalizing the wrappers it made                *)
(*   Spec         one Libvirt::Network object: its methods, free and the   *)
(*                collector's finalization                                 *)
(*   SpecCall     the gen_call_* macros and ruby_libvirt_create_error      *)
(*                applied to arbitrary native results and error states     *)
(*   SpecParams   the typed-parameter helpers: params_to_hash, get and set *)
(*                typed parameters, assign_hash_and_flags                  *)
(* Each specification moves its own variable and leaves the others alone.  *)
(***************************************************************************)
EXTENDS Integers, Sequences, FiniteSets, TLC

VARIABLES
    gl,     \* the frame of ruby_libvirt_generate_list and the native entries
    la,     \* the frame of gen_list_all, the raw elements and their wrappers
    nw,     \* one Network object, its native pointer, the last method call
    cs,     \* the last gen_call_* / create_error call and the native errors
    tp      \* the last typed-parameter call: its inputs, buffers and outcome

vars == <<gl, la, nw, cs, tp>>

(***************************************************************************)
(* Bounds of the model.                                                    *)
(***************************************************************************)
MaxNum == 3         \* longest native string list given to generate_list
MaxRet == 3         \* largest count returned by a list-all native function
MaxCalls == 3       \* method calls made on the one Network object
MaxParams == 2      \* most typed parameters the native count callback reports
MaxArgs == 3        \* longest Array passed where params and flags are expected

(***************************************************************************)
(* C and Ruby values.  A C pointer to a string is <<>> (NULL) or <<s>>.    *)
(* A Ruby VALUE is a tuple whose head is its class.                        *)
(***************************************************************************)
NULL == <<>>
CStr(s) == <<s>>
Qnil == <<"nil">>
Qtrue == <<"true">>
Qfalse == <<"false">>
INT2NUM(x) == <<"Integer", x>>
rb_str_new2(p) == <<"String", p[1]>>

\* integer_default_if_nil (ruby_libvirt_fixnum_set, common.c:413-420).
integer_default_if_nil(in, def) == IF in = Qnil THEN INT2NUM(def) ELSE in

(***************************************************************************)
(* ruby_libvirt_generate_list (common.c:180-218).                          *)
(*                                                                         *)
(* gl.pc is the position in the function:                                  *)
(*   "idle"       not called                                               *)
(*   "ary_new2"   before the protected rb_ary_new2 (line 189)              *)
(*   "loop"       at the loop test i < num (line 193)                      *)
(*   "store"      entry i converted, before the protected rb_ary_store     *)
(*   "exception"  in the cleanup loop at label exception (line 211)        *)
(*   "returned"   returned result (line 208)                               *)
(*   "raised"     rb_jump_tag re-raised the exception (line 214)           *)
(* gl.freed[k] counts the xfree calls made on list[k]; gl.listFreed counts *)
(* the frees of the outer array.  C arrays are indexed from 0.             *)
(***************************************************************************)
CStrings == {"a", "b"}

GLIdle ==
    [pc |-> "idle", num |-> 0, list |-> <<>>, i |-> 0, j |-> 0,
     freed |-> <<>>, listFreed |-> 0, result |-> <<>>, elem |-> Qnil,
     failedAt |-> "none"]

\* xfree(list[k]): one more release of native entry k (0-based).
xfree_entry(freed, k) == [freed EXCEPT ![k + 1] = @ + 1]

\* line 211: the cleanup loop starts at the entry the main loop stopped at.
CleanupStart_skip(i) == i + 1
CleanupStart(i) == i

\* the call itself: line 187, i = 0.
generate_list_call ==
    /\ gl.pc \in {"idle", "returned", "raised"}
    /\ \E n \in 0..MaxNum : \E l \in [1..n -> CStrings] :
         gl' = [GLIdle EXCEPT !.pc = "ary_new2", !.num = n, !.list = l,
                              !.freed = [k \in 1..n |-> 0]]
    /\ UNCHANGED <<la, nw, cs, tp>>

\* lines 189-192: result = rb_protect(ary_new2_wrap, &num, &exception).
generate_list_ary_new2 ==
    /\ gl.pc = "ary_new2"
    /\ \E exception \in BOOLEAN :
         gl' = IF exception
                 THEN [gl EXCEPT !.pc = "exception", !.j = CleanupStart(gl.i),
                                 !.failedAt = "ary_new2"]
                 ELSE [gl EXCEPT !.pc = "loop", !.result = <<>>]
    /\ UNCHANGED <<la, nw, cs, tp>>

\* lines 193-200: the loop test, then the protected string conversion.
generate_list_str_new2 ==
    /\ gl.pc = "loop"
    /\ gl.i < gl.num
    /\ \E exception \in BOOLEAN :
         gl' = IF exception
                 THEN [gl EXCEPT !.pc = "exception", !.j = CleanupStart(gl.i),
                                 !.failedAt = "str_new2"]
                 ELSE [gl EXCEPT !.pc = "store",
                                 !.elem = rb_str_new2(CStr(gl.list[gl.i + 1]))]
    /\ UNCHANGED <<la, nw, cs, tp>>

\* lines 201-206: the protected store, then xfree(list[i]) and i++.
generate_list_store ==
    /\ gl.pc = "store"
    /\ \E exception \in BOOLEAN :
         gl' = IF exception
                 THEN [gl EXCEPT !.pc = "exception", !.j = CleanupStart(gl.i),
                                 !.failedAt = "store"]
                 ELSE [gl EXCEPT !.pc = "loop",
                                 !.result = Append(gl.result, gl.elem),
                                 !.freed = xfree_entry(gl.freed, gl.i),
                                 !.i = gl.i + 1]
    /\ UNCHANGED <<la, nw, cs, tp>>

\* line 208: the loop is over, return result.
generate_list_return ==
    /\ gl.pc = "loop"
    /\ gl.i >= gl.num
    /\ gl' = [gl EXCEPT !.pc = "returned"]
    /\ UNCHANGED <<la, nw, cs, tp>>

\* lines 210-214: one turn of the cleanup loop, or rb_jump_tag after it.
generate_list_exception ==
    /\ gl.pc = "exception"
    /\ gl' = IF gl.j < gl.num
               THEN [gl EXCEPT !.freed = xfree_entry(gl.freed, gl.j),
                               !.j = gl.j + 1]
               ELSE [gl EXCEPT !.pc = "raised"]
    /\ UNCHANGED <<la, nw, cs, tp>>

(***************************************************************************)
(* The gen_list_all macro (common.h:112-152), with the collector           *)
(* finalizing the wrappers newfunc made (ruby_libvirt_new_class registers  *)
(* free_func as the wrapper's release function, common.c:160).             *)
(*                                                                         *)
(* la.pc: "idle", "ary_new2" (line 126), "loop" (line 130), "push"         *)
(* (line 133), "exception" (label exception, line 143), "returned",        *)
(* "raised".  Raw element k (1..ret) is list[k-1].  la.wrapped holds the   *)
(* elements newfunc has wrapped, la.freefunc[k] counts the freefunc calls  *)
(* on element k, la.finalized[k] the releases made by its wrapper's        *)
(* finalizer, la.listFreed the frees of the outer array.                   *)
(***************************************************************************)
LAIdle ==
    [pc |-> "idle", ret |-> 0, i |-> 0, k |-> 0, wrapped |-> {},
     freefunc |-> <<>>, finalized |-> <<>>, listFreed |-> 0, result |-> <<>>,
     failedAt |-> "none", flags |-> INT2NUM(0)]

\* lines 122-125: rb_scan_args accepts at most one optional argument; the
\* native list function reports failure with a negative count.
gen_list_all_call ==
    /\ la.pc \in {"idle", "returned", "raised"}
    /\ \E argc \in 0..2 : \E f \in 0..1 : \E ret \in -1..MaxRet :
         la' = IF argc > 1
                 THEN [LAIdle EXCEPT !.pc = "raised", !.failedAt = "scan_args"]
               ELSE IF ret < 0
                 THEN [LAIdle EXCEPT !.pc = "raised", !.failedAt = "listfunc"]
               ELSE [LAIdle EXCEPT !.pc = "ary_new2", !.ret = ret,
                                   !.flags = integer_default_if_nil(
                                       IF argc = 0 THEN Qnil ELSE INT2NUM(f), 0),
                                   !.freefunc = [x \in 1..ret |-> 0],
                                   !.finalized = [x \in 1..ret |-> 0]]
    /\ UNCHANGED <<gl, nw, cs, tp>>

\* lines 126-129: result = rb_protect(rb_ary_new2_wrap, &ret, &exception).
gen_list_all_ary_new2 ==
    /\ la.pc = "ary_new2"
    /\ \E exception \in BOOLEAN :
         la' = IF exception
                 THEN [la EXCEPT !.pc = "exception", !.k = 0,
                                 !.failedAt = "ary_new2"]
                 ELSE [la EXCEPT !.pc = "loop"]
    /\ UNCHANGED <<gl, nw, cs, tp>>

\* lines 130-132: arg.value = newfunc(list[i], val).  The call is not under
\* rb_protect: an exception raised by newfunc leaves the macro at once.
gen_list_all_newfunc ==
    /\ la.pc = "loop"
    /\ la.i < la.ret
    /\ \E raises \in BOOLEAN :
         la' = IF raises
                 THEN [la EXCEPT !.pc = "raised", !.failedAt = "newfunc"]
                 ELSE [la EXCEPT !.pc = "push",
                                 !.wrapped = @ \cup {la.i + 1}]
    /\ UNCHANGED <<gl, nw, cs, tp>>

\* lines 133-137: rb_protect(rb_ary_push_wrap, &arg, &exception), then i++.
gen_list_all_push ==
    /\ la.pc = "push"
    /\ \E exception \in BOOLEAN :
         la' = IF exception
                 THEN [la EXCEPT !.pc = "exception", !.k = 0,
                                 !.failedAt = "push"]
                 ELSE [la EXCEPT !.pc = "loop",
                                 !.result = Append(@, la.i + 1),
                                 !.i = @ + 1]
    /\ UNCHANGED <<gl, nw, cs, tp>>

\* lines 139-141: free(list); return result.
gen_list_all_return ==
    /\ la.pc = "loop"
    /\ la.i >= la.ret
    /\ la' = [la EXCEPT !.pc = "returned", !.listFreed = @ + 1]
    /\ UNCHANGED <<gl, nw, cs, tp>>

\* lines 143-148: freefunc(list[i]) for i = 0 .. ret-1, then free(list) and
\* rb_jump_tag(exception).
gen_list_all_exception ==
    /\ la.pc = "exception"
    /\ la' = IF la.k < la.ret
               THEN [la EXCEPT !.freefunc[la.k + 1] = @ + 1, !.k = @ + 1]
               ELSE [la EXCEPT !.pc = "raised", !.listFreed = @ + 1]
    /\ UNCHANGED <<gl, nw, cs, tp>>

\* The collector finalizes a wrapper once the call is over: free_func
\* (generic_free, common.h:18-25) releases the raw element it holds.
wrapper_finalize ==
    /\ la.pc \in {"returned", "raised"}
    /\ \E x \in la.wrapped :
         /\ la.finalized[x] = 0
         /\ la' = [la EXCEPT !.finalized[x] = 1]
    /\ UNCHANGED <<gl, nw, cs, tp>>

NextListAll ==
    \/ gen_list_all_call
    \/ gen_list_all_ary_new2
    \/ gen_list_all_newfunc
    \/ gen_list_all_push
    \/ gen_list_all_return
    \/ gen_list_all_exception
    \/ wrapper_finalize

\* the raw elements no wrapper holds
LARemaining == (1..la.ret) \ la.wrapped

\* C5: in the list-all shape, when wrapping element i fails (newfunc raises,
\* or appending the wrapper raises) and the error reaches the caller, every
\* remaining raw element has been released through freefunc and the outer
\* array has been freed exactly once; the array is freed only after them.
C5_CleanupBeforeReraise ==
    /\ (la.pc = "raised" /\ la.failedAt \in {"newfunc", "push"}) =>
          /\ \A x \in LARemaining : la.freefunc[x] >= 1
          /\ la.listFreed = 1
    /\ (la.failedAt \in {"newfunc", "push"} /\ la.listFreed = 1) =>
          \A x \in LARemaining : la.freefunc[x] >= 1
    /\ la.listFreed <= 1

\* C6: in the list-all shape no raw element is released twice, counting
\* freefunc and the finalizer of its wrapper, and an element a wrapper holds
\* is never passed to freefunc.
C6_NoDoubleRelease ==
    \A x \in 1..la.ret :
        /\ la.freefunc[x] + la.finalized[x] <= 1
        /\ x \in la.wrapped => la.freefunc[x] = 0

(***************************************************************************)
(* ruby_libvirt_create_error (common.c:87-139).                            *)
(*                                                                         *)
(* A virErrorPtr is NULL or <<e>> with e the virError: its code, domain    *)
(* and level, and its message, a C string pointer.  A virConnectPtr is     *)
(* NULL or <<c>>.  An instance variable of the exception is <<>> while     *)
(* unset and <<v>> once rb_iv_set stored v.                                *)
(***************************************************************************)
Codes == {38}               \* a virErrorNumber
Domains == {19}             \* a virErrorDomain
Levels == {2}               \* a virErrorLevel
Messages == {NULL, CStr("boom"), CStr("gone")}

virErrors ==
    {NULL} \cup {<<[code |-> c, domain |-> d, level |-> l, message |-> m]>> :
                    c \in Codes, d \in Domains, l \in Levels, m \in Messages}

Conns == {NULL, <<"conn">>}

NoIvars ==
    [function_name |-> <<>>, code |-> <<>>, component |-> <<>>,
     level |-> <<>>, message |-> <<>>]
NoExc == [class |-> "", message |-> "", ivars |-> NoIvars]

\* lines 97-102: the connection's last error when a connection is given,
\* the global last error otherwise.
LastError_swapped(conn, gErr, cErr) == IF conn = NULL THEN cErr ELSE gErr
LastError(conn, gErr, cErr) == IF conn = NULL THEN gErr ELSE cErr

\* lines 104-109: the asprintf format chosen.
ErrorMessage(method, err) ==
    IF err # NULL /\ err[1].message # NULL
      THEN "Call to " \o method \o " failed: " \o err[1].message[1]
      ELSE "Call to " \o method \o " failed"

\* the pointers lines 104-135 apply -> or %s to, on the path taken.
ErrorDerefs(err) ==
    (IF err # NULL THEN <<err>> ELSE <<>>)                        \* line 104
    \o (IF err # NULL /\ err[1].message # NULL
          THEN <<err, err[1].message>> ELSE <<>>)                 \* line 105
    \o (IF err # NULL THEN <<err, err, err>> ELSE <<>>)           \* 129-131
    \o (IF err # NULL /\ err[1].message # NULL
          THEN <<err, err[1].message>> ELSE <<>>)                 \* 132-134

\* lines 126-136: the instance variables set on the exception.
ErrorIvars_always(method, err) ==
    [function_name |-> <<method>>,
     code |-> IF err # NULL THEN <<err[1].code>> ELSE <<0>>,
     component |-> IF err # NULL THEN <<err[1].domain>> ELSE <<0>>,
     level |-> IF err # NULL THEN <<err[1].level>> ELSE <<0>>,
     message |-> IF err # NULL /\ err[1].message # NULL
                   THEN <<err[1].message[1]>> ELSE <<>>]
ErrorIvars(method, err) ==
    [function_name |-> <<method>>,
     code |-> IF err # NULL THEN <<err[1].code>> ELSE <<>>,
     component |-> IF err # NULL THEN <<err[1].domain>> ELSE <<>>,
     level |-> IF err # NULL THEN <<err[1].level>> ELSE <<>>,
     message |-> IF err # NULL /\ err[1].message # NULL
                   THEN <<err[1].message[1]>> ELSE <<>>]

\* The host failures the translator can meet: asprintf returning rc < 0
\* (line 111) and rb_exc_new2 raising under rb_protect (lines 119-124).
HostFailures == {"none", "asprintf", "exc_new2"}

\* The whole function.  ok: it returned the exception it built; otherwise it
\* raised exc itself (rb_memerror, or rb_jump_tag of the pending exception).
create_error(error, method, conn, gErr, cErr, hostFailure) ==
    LET err == LastError(conn, gErr, cErr) IN
    IF hostFailure = "asprintf"
      THEN [ok |-> FALSE, derefs |-> <<>>,
            exc |-> [class |-> "NoMemoryError",
                     message |-> "failed to allocate memory",
                     ivars |-> NoIvars]]
    ELSE IF hostFailure = "exc_new2"
      THEN [ok |-> FALSE, derefs |-> <<>>,
            exc |-> [class |-> "NoMemoryError",
                     message |-> "failed to allocate memory",
                     ivars |-> NoIvars]]
    ELSE [ok |-> TRUE, derefs |-> ErrorDerefs(err),
          exc |-> [class |-> error, message |-> ErrorMessage(method, err),
                   ivars |-> ErrorIvars(method, err)]]

e_Error == "Libvirt::Error"
e_RetrieveError == "Libvirt::RetrieveError"

(***************************************************************************)
(* The call shapes (common.h:36-110).  Each is given what the one native   *)
(* call returned and the native error state it left, and yields the events *)
(* of the call in order and how the Ruby method ends.                      *)
(***************************************************************************)
Returns(events, val) ==
    [events |-> events \o <<"return">>, kind |-> "return", val |-> val,
     exc |-> NoExc, translated |-> FALSE, derefs |-> <<>>]

\* _E(cond, excep) with cond true (common.h:155-156): rb_exc_raise(excep),
\* unless building excep raised first.
Raises(events, e) ==
    [events |-> events \o <<"raise">>, kind |-> "raise", val |-> Qnil,
     exc |-> e.exc, translated |-> e.ok, derefs |-> e.derefs]

\* a host exception that is not built by create_error
HostRaises(events, class, message) ==
    [events |-> events \o <<"raise">>, kind |-> "raise", val |-> Qnil,
     exc |-> [class |-> class, message |-> message, ivars |-> NoIvars],
     translated |-> FALSE, derefs |-> <<>>]

\* the sentinel test of the int-returning shapes: _r < 0 (lines 85, 96, 108)
IsError_minus_one(r) == r = -1
IsError(r) == r < 0

\* common.h:81-87
gen_call_void(func, conn, r, gErr, cErr, hf) ==
    IF IsError(r)
      THEN Raises(<<"native">>, create_error(e_Error, func, conn, gErr, cErr, hf))
      ELSE Returns(<<"native">>, Qnil)

\* common.h:92-98
truefalse(r) == IF r # 0 THEN Qtrue ELSE Qfalse
gen_call_truefalse(func, conn, r, gErr, cErr, hf) ==
    IF IsError(r)
      THEN Raises(<<"native">>, create_error(e_Error, func, conn, gErr, cErr, hf))
      ELSE Returns(<<"native">>, truefalse(r))

\* common.h:104-110
gen_call_int(func, conn, r, gErr, cErr, hf) ==
    IF IsError(r)
      THEN Raises(<<"native">>,
                  create_error(e_RetrieveError, func, conn, gErr, cErr, hf))
      ELSE Returns(<<"native">>, INT2NUM(r))

\* common.h:40-60.  str is what func returned; strFails: the host string
\* conversion raises.
StringCopy_leak(dealloc, strFails) ==
    IF dealloc
      THEN IF strFails THEN <<"native", "str_new2">>
                       ELSE <<"native", "str_new2", "xfree">>
      ELSE <<"native", "str_new2">>
StringCopy(dealloc, strFails) ==
    IF dealloc THEN <<"native", "str_new2", "xfree">>
               ELSE <<"native", "str_new2">>
gen_call_string(func, conn, dealloc, str, strFails, gErr, cErr, hf) ==
    IF str = NULL
      THEN Raises(<<"native">>, create_error(e_Error, func, conn, gErr, cErr, hf))
    ELSE IF strFails
      THEN HostRaises(StringCopy(dealloc, strFails), "NoMemoryError",
                      "failed to allocate memory")
    ELSE Returns(StringCopy(dealloc, strFails), rb_str_new2(str))

NativeInts == {-2147483647 - 1, -1, 0, 1, 2, 2147483647}    \* a C int
NativeStrs == {NULL, CStr(""), CStr("net0")}                \* a char *

CSInit ==
    [shape |-> "none", func |-> "", conn |-> NULL, r |-> 0, str |-> NULL,
     dealloc |-> FALSE, strFails |-> FALSE, gErr |-> NULL, cErr |-> NULL,
     hf |-> "none", out |-> Returns(<<>>, Qnil)]

\* What the native library leaves as last errors after a call: a failing
\* call may record an error, globally or on the connection, or record none.
NativeErrorsAfter(failed) ==
    IF failed THEN virErrors \X virErrors ELSE {<<cs.gErr, cs.cErr>>}

call_void ==
    \E conn \in Conns, r \in NativeInts, hf \in HostFailures :
      \E errs \in NativeErrorsAfter(r < 0) :
        /\ cs' = [CSInit EXCEPT !.shape = "void", !.func = "virNetworkCreate",
                    !.conn = conn, !.r = r, !.gErr = errs[1], !.cErr = errs[2],
                    !.hf = IF r < 0 THEN hf ELSE "none",
                    !.out = gen_call_void("virNetworkCreate", conn, r,
                                          errs[1], errs[2], hf)]
        /\ UNCHANGED <<gl, la, nw, tp>>

call_truefalse ==
    \E conn \in Conns, r \in NativeInts, hf \in HostFailures :
      \E errs \in NativeErrorsAfter(r < 0) :
        /\ cs' = [CSInit EXCEPT !.shape = "truefalse",
                    !.func = "virNetworkIsActive",
                    !.conn = conn, !.r = r, !.gErr = errs[1], !.cErr = errs[2],
                    !.hf = IF r < 0 THEN hf ELSE "none",
                    !.out = gen_call_truefalse("virNetworkIsActive", conn, r,
                                               errs[1], errs[2], hf)]
        /\ UNCHANGED <<gl, la, nw, tp>>

call_int ==
    \E conn \in Conns, r \in NativeInts, hf \in HostFailures :
      \E errs \in NativeErrorsAfter(r < 0) :
        /\ cs' = [CSInit EXCEPT !.shape = "int", !.func = "virConnectNumOfNetworks",
                    !.conn = conn, !.r = r, !.gErr = errs[1], !.cErr = errs[2],
                    !.hf = IF r < 0 THEN hf ELSE "none",
                    !.out = gen_call_int("virConnectNumOfNetworks", conn, r,
                                         errs[1], errs[2], hf)]
        /\ UNCHANGED <<gl, la, nw, tp>>

call_string ==
    \E conn \in Conns, str \in NativeStrs, dealloc \in BOOLEAN,
       strFails \in BOOLEAN, hf \in HostFailures :
      \E errs \in NativeErrorsAfter(str = NULL) :
        /\ cs' = [CSInit EXCEPT !.shape = "string",
                    !.func = "virNetworkGetXMLDesc",
                    !.conn = conn, !.str = str, !.dealloc = dealloc,
                    !.strFails = strFails /\ str # NULL,
                    !.gErr = errs[1], !.cErr = errs[2],
                    !.hf = IF str = NULL THEN hf ELSE "none",
                    !.out = gen_call_string("virNetworkGetXMLDesc", conn,
                                dealloc, str, strFails, errs[1], errs[2], hf)]
        /\ UNCHANGED <<gl, la, nw, tp>>

NextCall == call_void \/ call_truefalse \/ call_int \/ call_string

\* the number of times ev occurs in the events of a call
Count(events, ev) == Cardinality({n \in DOMAIN events : events[n] = ev})

\* the place of the first ev in the events of a call, 0 when there is none
First(events, ev) ==
    IF \E n \in DOMAIN events : events[n] = ev
      THEN CHOOSE n \in DOMAIN events :
             events[n] = ev /\ \A m \in 1..(n - 1) : events[m] # ev
      ELSE 0

\* C7: in the void, int and boolean shapes the native function is invoked
\* exactly once and the method raises if and only if the native return value
\* is negative, the error being the translated one whenever the host could
\* build it; otherwise void returns nil, int returns the native value
\* unchanged, boolean returns false for 0 and true for 1.
C7_SentinelShapes ==
    cs.shape \in {"void", "truefalse", "int"} =>
      /\ Count(cs.out.events, "native") = 1
      /\ (cs.out.kind = "raise") <=> (cs.r < 0)
      /\ (cs.out.kind = "return") <=> (cs.r >= 0)
      /\ (cs.r < 0 /\ cs.hf = "none") =>
            /\ cs.out.translated
            /\ cs.out.exc.ivars.function_name = <<cs.func>>
      /\ (cs.r >= 0 /\ cs.shape = "void") => cs.out.val = <<"nil">>
      /\ (cs.r >= 0 /\ cs.shape = "int") => cs.out.val = <<"Integer", cs.r>>
      /\ (cs.r = 0 /\ cs.shape = "truefalse") => cs.out.val = <<"false">>
      /\ (cs.r = 1 /\ cs.shape = "truefalse") => cs.out.val = <<"true">>

\* a boolean call whose native function returned 1
C7_Witness ==
    /\ cs.shape = "truefalse"
    /\ cs.r = 1
    /\ cs.out.kind = "return"
    /\ cs.out.val = <<"true">>

\* C8: in the string shape, a null native result raises and no free of the
\* buffer is attempted; a buffer returned with the ownership flag set is
\* freed exactly once, after the copy attempt, whether or not the host
\* string conversion raises; without the flag the buffer is never freed.
C8_StringBufferOwnership ==
    cs.shape = "string" =>
      /\ Count(cs.out.events, "native") = 1
      /\ cs.str = NULL =>
            /\ cs.out.kind = "raise"
            /\ Count(cs.out.events, "xfree") = 0
            /\ Count(cs.out.events, "str_new2") = 0
      /\ (cs.str # NULL /\ cs.dealloc) =>
            /\ Count(cs.out.events, "xfree") = 1
            /\ Count(cs.out.events, "str_new2") = 1
            /\ First(cs.out.events, "str_new2") < First(cs.out.events, "xfree")
            /\ (cs.out.kind = "raise") <=> cs.strFails
      /\ (cs.str # NULL /\ ~cs.dealloc) => Count(cs.out.events, "xfree") = 0

\* an owned buffer whose conversion to a host string raised
C8_Witness ==
    /\ cs.shape = "string"
    /\ cs.str # NULL
    /\ cs.dealloc
    /\ cs.strFails
    /\ cs.out.kind = "raise"
    /\ Count(cs.out.events, "xfree") = 1

\* the native error the translator must read for the recorded call
CSNativeError == IF cs.conn = NULL THEN cs.gErr ELSE cs.cErr

\* C9 as stated: every error the translator produces carries the function
\* name, the native code, the native domain and the native level, whatever
\* the native error state, the state with no error recorded included.
C9_AllFieldsAlways ==
    (cs.out.kind = "raise" /\ cs.out.translated) =>
      /\ cs.out.exc.ivars.function_name # <<>>
      /\ cs.out.exc.ivars.code # <<>>
      /\ cs.out.exc.ivars.component # <<>>
      /\ cs.out.exc.ivars.level # <<>>

\* C9 as amended: every error the translator produces carries the function
\* name; it carries the native code, domain and level exactly when the
\* native layer recorded an error, with the values recorded, and the message
\* exactly when that error has a message.
C9_FieldsWhenErrorRecorded ==
    (cs.out.kind = "raise" /\ cs.out.translated) =>
      LET iv == cs.out.exc.ivars
          err == CSNativeError
      IN  /\ iv.function_name = <<cs.func>>
          /\ err = <<>> =>
                iv.code = <<>> /\ iv.component = <<>> /\ iv.level = <<>>
                               /\ iv.message = <<>>
          /\ err # <<>> =>
                /\ iv.code = <<err[1].code>>
                /\ iv.component = <<err[1].domain>>
                /\ iv.level = <<err[1].level>>
                /\ iv.message = err[1].message

\* a translated error raised while the native layer had recorded no error
C9_Witness ==
    /\ cs.out.kind = "raise"
    /\ cs.out.translated
    /\ CSNativeError = <<>>
    /\ cs.out.exc.ivars.function_name = <<cs.func>>
    /\ cs.out.exc.ivars.code = <<>>

\* C10: the translator reads the connection's last error when a connection
\* is given and the global last error otherwise; the message is
\* "Call to <function> failed: <native message>" when that error exists and
\* has a message, and "Call to <function> failed" when no error is recorded
\* or its message is null; no null error or null message is dereferenced.
C10_MessageFromScopedError ==
    (cs.out.kind = "raise" /\ cs.out.translated) =>
      LET err == CSNativeError IN
      /\ (err # <<>> /\ err[1].message # <<>>) =>
            cs.out.exc.message =
                "Call to " \o cs.func \o " failed: " \o err[1].message[1]
      /\ (err = <<>> \/ err[1].message = <<>>) =>
            cs.out.exc.message = "Call to " \o cs.func \o " failed"
      /\ \A n \in DOMAIN cs.out.derefs : cs.out.derefs[n] # <<>>

\* a connection is given, its last error has a message, and the global last
\* error has another
C10_Witness ==
    /\ cs.out.kind = "raise"
    /\ cs.out.translated
    /\ cs.conn # <<>>
    /\ cs.cErr # <<>>
    /\ cs.gErr # <<>>
    /\ cs.cErr[1].message = <<"boom">>
    /\ cs.gErr[1].message = <<"gone">>
    /\ cs.out.exc.message = "Call to " \o cs.func \o " failed: boom"

(***************************************************************************)
(* One Libvirt::Network object (network.c:32-235).                         *)
(*                                                                         *)
(* nw.ptr is DATA_PTR of the object: the virNetworkPtr, or NULL once free  *)
(* succeeded.  nw.released counts the virNetworkFree calls that succeeded  *)
(* on the native network, nw.freeAfterRelease the virNetworkFree calls     *)
(* made on it after one had succeeded.  nw.op, nw.entryPtr, nw.argsOK,     *)
(* nw.r, nw.out and nw.nativeArgs record the last method call: its name,   *)
(* DATA_PTR when it began, whether its own arguments were acceptable, what *)
(* the native function returned, how the method ended and the pointers     *)
(* handed to native functions.                                             *)
(***************************************************************************)
NetPtr == <<"net">>
NetRets == {-1, 0, 1}

NWInit ==
    [ptr |-> NetPtr, alive |-> TRUE, released |-> 0, freeAfterRelease |-> 0,
     calls |-> 0, op |-> "new", entryPtr |-> NetPtr, argsOK |-> TRUE, r |-> 0,
     out |-> Returns(<<>>, Qnil), nativeArgs |-> <<>>,
     gErr |-> NULL, cErr |-> NULL]

\* generic_get (common.h:8-16), network_get (network.c:37-40)
network_get_unchecked(ptr) == [raised |-> FALSE, ptr |-> ptr]
network_get(ptr) == [raised |-> ptr = NULL, ptr |-> ptr]

FreedError == HostRaises(<<>>, "ArgumentError", "Network has been freed")
NoArgError == Returns(<<>>, Qnil)

\* connect_get(n): the virConnectPtr of the object's @connection.
connect_get == <<"conn">>

\* A method whose native call takes network_get(n) and other converted
\* arguments.  early: a check that runs before any argument is evaluated
\* raised; late: the conversion of another argument raises; handleFirst:
\* network_get(n) is evaluated before the other arguments (C leaves the
\* order of evaluation of arguments unspecified).
Dispatch(early, late, handleFirst, argError, shapeOut) ==
    LET g == network_get(nw.ptr) IN
    IF early THEN [out |-> argError, nativeArgs |-> <<>>]
    ELSE IF late /\ ~handleFirst THEN [out |-> argError, nativeArgs |-> <<>>]
    ELSE IF g.raised THEN [out |-> FreedError, nativeArgs |-> <<>>]
    ELSE IF late THEN [out |-> argError, nativeArgs |-> <<>>]
    ELSE [out |-> shapeOut, nativeArgs |-> <<g.ptr>>]

\* the record of a finished method call; the native function, when it was
\* reached and failed, has left errs as the last errors
NetDone(op, argsOK, r, errs, res) ==
    LET reached == res.nativeArgs # <<>> IN
    nw' = [nw EXCEPT !.calls = @ + 1, !.op = op, !.entryPtr = nw.ptr,
                     !.argsOK = argsOK,
                     !.r = IF reached THEN r ELSE 0,
                     !.out = res.out, !.nativeArgs = res.nativeArgs,
                     !.gErr = IF reached /\ r < 0 THEN errs[1] ELSE @,
                     !.cErr = IF reached /\ r < 0 THEN errs[2] ELSE @]

CanCall == nw.alive /\ nw.calls < MaxCalls

TypeError == HostRaises(<<>>, "TypeError", "wrong argument type")
ArityError == HostRaises(<<>>, "ArgumentError", "wrong number of arguments")

\* gen_call_void(func, connect_get(n), network_get(n))
NetVoid(op, func) ==
    /\ CanCall
    /\ \E r \in NetRets, hf \in HostFailures, errs \in {NULL} \X virErrors :
         NetDone(op, TRUE, r, errs,
                 Dispatch(FALSE, FALSE, TRUE, NoArgError,
                          gen_call_void(func, connect_get, r,
                                        errs[1], errs[2], hf)))
    /\ UNCHANGED <<gl, la, cs, tp>>

\* gen_call_truefalse(func, connect_get(n), network_get(n))
NetTruefalse(op, func) ==
    /\ CanCall
    /\ \E r \in NetRets, hf \in HostFailures, errs \in {NULL} \X virErrors :
         NetDone(op, TRUE, r, errs,
                 Dispatch(FALSE, FALSE, TRUE, NoArgError,
                          gen_call_truefalse(func, connect_get, r,
                                             errs[1], errs[2], hf)))
    /\ UNCHANGED <<gl, la, cs, tp>>

\* network.c:54-57
libvirt_netw_undefine == NetVoid("undefine", "virNetworkUndefine")
\* network.c:66-69
libvirt_netw_create == NetVoid("create", "virNetworkCreate")
\* network.c:92-95
libvirt_netw_destroy == NetVoid("destroy", "virNetworkDestroy")
\* network.c:217-220
libvirt_netw_active_p == NetTruefalse("active?", "virNetworkIsActive")
\* network.c:231-234
libvirt_netw_persistent_p ==
    NetTruefalse("persistent?", "virNetworkIsPersistent")

\* network.c:78-84: NUM2UINT(command), NUM2UINT(section), NUM2INT(index),
\* StringValuePtr(xml) and NUM2UINT(flags) raise TypeError on a value of
\* another class; they and network_get(n) are arguments of one call.
libvirt_netw_update ==
    /\ CanCall
    /\ \E argsOK \in BOOLEAN, handleFirst \in BOOLEAN, r \in NetRets,
          hf \in HostFailures, errs \in {NULL} \X virErrors :
         NetDone("update", argsOK, r, errs,
                 Dispatch(FALSE, ~argsOK, handleFirst, TypeError,
                          gen_call_void("virNetworkUpdate", connect_get, r,
                                        errs[1], errs[2], hf)))
    /\ UNCHANGED <<gl, la, cs, tp>>

\* network.c:104-107: the name belongs to the network object (dealloc 0).
libvirt_netw_name ==
    /\ CanCall
    /\ \E str \in NativeStrs, strFails \in BOOLEAN, hf \in HostFailures,
          errs \in {NULL} \X virErrors :
         NetDone("name", TRUE, IF str = NULL THEN -1 ELSE 0, errs,
                 Dispatch(FALSE, FALSE, TRUE, NoArgError,
                          gen_call_string("virNetworkGetName", connect_get,
                              FALSE, str, strFails, errs[1], errs[2], hf)))
    /\ UNCHANGED <<gl, la, cs, tp>>

\* network.c:116-127
libvirt_netw_uuid ==
    /\ CanCall
    /\ \E r \in NetRets, strFails \in BOOLEAN, hf \in HostFailures,
          errs \in {NULL} \X virErrors :
         NetDone("uuid", TRUE, r, errs,
                 Dispatch(FALSE, FALSE, TRUE, NoArgError,
                    IF r < 0
                      THEN Raises(<<"native">>,
                             create_error(e_RetrieveError,
                                          "virNetworkGetUUIDString",
                                          connect_get, errs[1], errs[2], hf))
                    ELSE IF strFails
                      THEN HostRaises(<<"native", "str_new2">>, "NoMemoryError",
                                      "failed to allocate memory")
                    ELSE Returns(<<"native", "str_new2">>,
                                 rb_str_new2(CStr("uuid")))))
    /\ UNCHANGED <<gl, la, cs, tp>>

\* network.c:136-146: rb_scan_args takes at most one argument; flags
\* defaults to 0 when nil; NUM2UINT(flags) raises on a non-integer.
libvirt_netw_xml_desc ==
    /\ CanCall
    /\ \E argc \in 0..2, flagsKind \in {"nil", "int", "other"},
          handleFirst \in BOOLEAN, str \in NativeStrs, strFails \in BOOLEAN,
          hf \in HostFailures, errs \in {NULL} \X virErrors :
         LET flags == IF argc = 0 \/ flagsKind = "nil" THEN Qnil
                      ELSE IF flagsKind = "int" THEN INT2NUM(1)
                      ELSE <<"Symbol">>
             flagsBad == integer_default_if_nil(flags, 0)[1] # "Integer"
         IN NetDone("xml_desc", argc <= 1 /\ ~flagsBad,
                    IF str = NULL THEN -1 ELSE 0, errs,
                    Dispatch(argc > 1, flagsBad, handleFirst,
                             IF argc > 1 THEN ArityError ELSE TypeError,
                             gen_call_string("virNetworkGetXMLDesc",
                                 connect_get, TRUE, str, strFails,
                                 errs[1], errs[2], hf)))
    /\ UNCHANGED <<gl, la, cs, tp>>

\* network.c:155-158
libvirt_netw_bridge_name ==
    /\ CanCall
    /\ \E str \in NativeStrs, strFails \in BOOLEAN, hf \in HostFailures,
          errs \in {NULL} \X virErrors :
         NetDone("bridge_name", TRUE, IF str = NULL THEN -1 ELSE 0, errs,
                 Dispatch(FALSE, FALSE, TRUE, NoArgError,
                          gen_call_string("virNetworkGetBridgeName",
                              connect_get, TRUE, str, strFails,
                              errs[1], errs[2], hf)))
    /\ UNCHANGED <<gl, la, cs, tp>>

\* network.c:167-177
libvirt_netw_autostart ==
    /\ CanCall
    /\ \E r \in NetRets, autostart \in 0..1, hf \in HostFailures,
          errs \in {NULL} \X virErrors :
         NetDone("autostart", TRUE, r, errs,
                 Dispatch(FALSE, FALSE, TRUE, NoArgError,
                    IF r < 0
                      THEN Raises(<<"native">>,
                             create_error(e_RetrieveError, "virNetworkAutostart",
                                          connect_get, errs[1], errs[2], hf))
                      ELSE Returns(<<"native">>, truefalse(autostart))))
    /\ UNCHANGED <<gl, la, cs, tp>>

\* network.c:186-195: the class of the argument is checked first.
libvirt_netw_autostart_set ==
    /\ CanCall
    /\ \E autostart \in {Qtrue, Qfalse, Qnil}, r \in NetRets,
          hf \in HostFailures, errs \in {NULL} \X virErrors :
         LET bad == autostart # Qtrue /\ autostart # Qfalse IN
         NetDone("autostart=", ~bad, r, errs,
                 Dispatch(bad, FALSE, TRUE, TypeError,
                          gen_call_void("virNetworkSetAutostart", connect_get,
                                        r, errs[1], errs[2], hf)))
    /\ UNCHANGED <<gl, la, cs, tp>>

\* virNetworkFree as the native library performs it: the calls made on the
\* network after one has succeeded, and the calls that succeeded.
NativeFree(called, r) ==
    [freeAfterRelease |-> nw.freeAfterRelease
                            + (IF called /\ nw.released > 0 THEN 1 ELSE 0),
     released |-> nw.released + (IF called /\ r >= 0 THEN 1 ELSE 0)]

\* gen_call_free (common.h:65-75)
gen_call_free_keep(kind, ptr, conn, r, gErr, cErr, hf) ==
    IF ptr # NULL
      THEN IF r < 0
             THEN [out |-> Raises(<<"native">>,
                             create_error(e_Error, "vir" \o kind \o "Free",
                                          conn, gErr, cErr, hf)),
                   ptr |-> ptr, nativeArgs |-> <<ptr>>]
             ELSE [out |-> Returns(<<"native">>, Qnil),
                   ptr |-> ptr, nativeArgs |-> <<ptr>>]
      ELSE [out |-> Returns(<<>>, Qnil), ptr |-> ptr, nativeArgs |-> <<>>]
gen_call_free_raising(kind, ptr, conn, r, gErr, cErr, hf) ==
    IF ptr # NULL
      THEN IF r < 0
             THEN [out |-> Raises(<<"native">>,
                             create_error(e_Error, "vir" \o kind \o "Free",
                                          conn, gErr, cErr, hf)),
                   ptr |-> ptr, nativeArgs |-> <<ptr>>]
             ELSE [out |-> Returns(<<"native">>, Qnil),
                   ptr |-> NULL, nativeArgs |-> <<ptr>>]
      ELSE [out |-> HostRaises(<<>>, "ArgumentError",
                               kind \o " has been freed"),
            ptr |-> ptr, nativeArgs |-> <<>>]
gen_call_free(kind, ptr, conn, r, gErr, cErr, hf) ==
    IF ptr # NULL
      THEN IF r < 0
             THEN [out |-> Raises(<<"native">>,
                             create_error(e_Error, "vir" \o kind \o "Free",
                                          conn, gErr, cErr, hf)),
                   ptr |-> ptr, nativeArgs |-> <<ptr>>]
             ELSE [out |-> Returns(<<"native">>, Qnil),
                   ptr |-> NULL, nativeArgs |-> <<ptr>>]
      ELSE [out |-> Returns(<<>>, Qnil), ptr |-> ptr, nativeArgs |-> <<>>]

\* network.c:204-207
libvirt_netw_free ==
    /\ CanCall
    /\ \E r \in {-1, 0}, hf \in HostFailures, errs \in {NULL} \X virErrors :
         LET res == gen_call_free("Network", nw.ptr, connect_get, r,
                                  errs[1], errs[2], hf)
             called == res.nativeArgs # <<>>
             nat == NativeFree(called, r)
         IN nw' = [nw EXCEPT !.calls = @ + 1, !.op = "free",
                      !.entryPtr = nw.ptr, !.argsOK = TRUE,
                      !.r = IF called THEN r ELSE 0,
                      !.out = res.out, !.nativeArgs = res.nativeArgs,
                      !.ptr = res.ptr,
                      !.released = nat.released,
                      !.freeAfterRelease = nat.freeAfterRelease,
                      !.gErr = IF called /\ r < 0 THEN errs[1] ELSE @,
                      !.cErr = IF called /\ r < 0 THEN errs[2] ELSE @]
    /\ UNCHANGED <<gl, la, cs, tp>>

\* generic_free (common.h:18-25) as network_free (network.c:32-35)
generic_free(kind, p, r) ==
    IF r < 0
      THEN HostRaises(<<"native">>, "SystemCallError", kind \o " free failed")
      ELSE Returns(<<"native">>, Qnil)

\* The collector finalizes the object: it calls the release function
\* registered by Data_Wrap_Struct (common.c:160) when DATA_PTR is not NULL.
network_finalize ==
    /\ nw.alive
    /\ \E r \in {-1, 0} :
         LET called == nw.ptr # NULL
             nat == NativeFree(called, r)
         IN nw' = [nw EXCEPT !.alive = FALSE, !.op = "finalize",
                      !.entryPtr = nw.ptr, !.argsOK = TRUE,
                      !.r = IF called THEN r ELSE 0,
                      !.out = IF called THEN generic_free("Network", nw.ptr, r)
                                        ELSE Returns(<<>>, Qnil),
                      !.nativeArgs = IF called THEN <<nw.ptr>> ELSE <<>>,
                      !.released = nat.released,
                      !.freeAfterRelease = nat.freeAfterRelease]
    /\ UNCHANGED <<gl, la, cs, tp>>

\* network_new (network.c:42-45): a new object around a new native network.
network_new ==
    /\ ~nw.alive
    /\ nw' = NWInit
    /\ UNCHANGED <<gl, la, cs, tp>>

(***************************************************************************)
(* Typed parameters (common.c:220-402).                                    *)
(*                                                                         *)
(* A virTypedParameter is [field, type, value]: value is the union, a      *)
(* record with one member per kind, of which only the member the type tag  *)
(* selects is meaningful.  A double is counted in tenths (15 is 1.5), in   *)
(* the buffer and in a Ruby Float.  A Ruby Hash is <<"Hash", h>> with h a  *)
(* function from its keys.                                                 *)
(***************************************************************************)
ParamKinds == {"INT", "UINT", "LLONG", "ULLONG", "DOUBLE", "BOOLEAN", "STRING"}
ParamTypes == ParamKinds \cup {"UNKNOWN"}   \* a tag the binding does not know

FieldNames == <<"f0", "f1", "f2", "f3">>

\* the union as the native library leaves it when it fills no member
UnionJunk ==
    [i |-> 0, ui |-> 0, l |-> 0, ul |-> 0, d |-> 0, b |-> 0, s |-> CStr("")]

\* the member of the union a type tag selects
Member(type) ==
    CASE type = "INT" -> "i"
      [] type = "UINT" -> "ui"
      [] type = "LLONG" -> "l"
      [] type = "ULLONG" -> "ul"
      [] type = "DOUBLE" -> "d"
      [] type = "BOOLEAN" -> "b"
      [] type = "STRING" -> "s"
      [] OTHER -> "i"

\* the values the native library stores in a slot of each kind
NativeValues(type) ==
    CASE type = "INT" -> {-1}
      [] type = "UINT" -> {42}
      [] type = "LLONG" -> {-7}
      [] type = "ULLONG" -> {7}
      [] type = "DOUBLE" -> {15}
      [] type = "BOOLEAN" -> {0, 2}
      [] type = "STRING" -> {CStr("a")}
      [] OTHER -> {0}

Slot(name, type, v) ==
    [field |-> name, type |-> type,
     value |-> [UnionJunk EXCEPT ![Member(type)] = v]]

\* the parameter buffers of n slots the fetch callback can fill
SlotsAt(k) ==
    UNION {{Slot(FieldNames[k], t, v) : v \in NativeValues(t)} : t \in ParamTypes}
RECURSIVE Buffers(_)
Buffers(n) ==
    IF n = 0 THEN {<<>>}
    ELSE {Append(b, sl) : b \in Buffers(n - 1), sl \in SlotsAt(n)}

rb_hash_new == <<>>
rb_hash_aset(h, k, v) ==
    [x \in DOMAIN h \cup {k} |-> IF x = k THEN v ELSE h[x]]
rb_hash_aref_zero(h, k) == IF k \in DOMAIN h THEN h[k] ELSE INT2NUM(0)
rb_hash_aref(h, k) == IF k \in DOMAIN h THEN h[k] ELSE Qnil
rb_float_new(d) == <<"Float", d>>

\* common.c:227-251: the VALUE made from a slot, by its type tag.
SlotValue_signed(sl) ==
    CASE sl.type = "INT" -> INT2NUM(sl.value.i)
      [] sl.type = "UINT" -> INT2NUM(sl.value.i)
      [] sl.type = "LLONG" -> INT2NUM(sl.value.l)
      [] sl.type = "ULLONG" -> INT2NUM(sl.value.l)
      [] sl.type = "DOUBLE" -> rb_float_new(sl.value.d)
      [] sl.type = "BOOLEAN" -> IF sl.value.b = 0 THEN Qfalse ELSE Qtrue
      [] sl.type = "STRING" -> rb_str_new2(sl.value.s)
      [] OTHER -> Qnil
SlotValue(sl) ==
    CASE sl.type = "INT" -> INT2NUM(sl.value.i)
      [] sl.type = "UINT" -> INT2NUM(sl.value.ui)
      [] sl.type = "LLONG" -> INT2NUM(sl.value.l)
      [] sl.type = "ULLONG" -> INT2NUM(sl.value.ul)
      [] sl.type = "DOUBLE" -> rb_float_new(sl.value.d)
      [] sl.type = "BOOLEAN" -> IF sl.value.b = 0 THEN Qfalse ELSE Qtrue
      [] sl.type = "STRING" -> rb_str_new2(sl.value.s)
      [] OTHER -> Qnil

\* ruby_libvirt_params_to_hash (common.c:220-255), from slot i (1-based)
\* on: visited lists the slots the loop has reached, in order.
RECURSIVE params_to_hash_from(_, _, _, _, _)
params_to_hash_from(params, nparams, i, hash, visited) ==
    IF i > nparams
      THEN [ok |-> TRUE, hash |-> hash, visited |-> visited]
    ELSE IF params[i].type \notin ParamKinds
      THEN [ok |-> FALSE, hash |-> hash, visited |-> Append(visited, i)]
    ELSE params_to_hash_from(params, nparams, i + 1,
             rb_hash_aset(hash, params[i].field, SlotValue(params[i])),
             Append(visited, i))

params_to_hash(params, nparams, hash) ==
    params_to_hash_from(params, nparams, 1, hash, <<>>)

InvalidType(events) ==
    HostRaises(events, "ArgumentError", "Invalid parameter type")

\* What a callback reports: errname is NULL, or the name of the native
\* function that failed.
CallbackNames == {NULL, CStr("virDomainGetMemoryParameters")}

RetrieveError(events, errname) ==
    Raises(events, create_error(e_RetrieveError, errname[1], connect_get,
                                NULL, NULL, "none"))

\* ruby_libvirt_get_typed_parameters (common.c:257-293).  countErr and n are
\* what nparams_cb reported, fetchErr and params what get_cb reported.
get_typed_parameters(countErr, n, fetchErr, params) ==
    IF countErr # NULL
      THEN [out |-> RetrieveError(<<"count">>, countErr), visited |-> <<>>]
    ELSE IF n = 0
      THEN [out |-> Returns(<<"count">>, <<"Hash", rb_hash_new>>),
            visited |-> <<>>]
    ELSE IF fetchErr # NULL
      THEN [out |-> RetrieveError(<<"count", "fetch">>, fetchErr),
            visited |-> <<>>]
    ELSE LET dec == params_to_hash(params, Len(params), rb_hash_new) IN
         IF dec.ok
           THEN [out |-> Returns(<<"count", "fetch">>, <<"Hash", dec.hash>>),
                 visited |-> dec.visited]
           ELSE [out |-> InvalidType(<<"count", "fetch">>),
                 visited |-> dec.visited]

(***************************************************************************)
(* The conversions of a VALUE into a native slot.  Each yields [ok, val,   *)
(* class]: the converted value, or the class of the exception the host     *)
(* raises.  The Integers drawn fit every native width, so no conversion    *)
(* here is out of range.                                                   *)
(***************************************************************************)
Converted(v) == [ok |-> TRUE, val |-> v, class |-> "none"]
NoConversion == [ok |-> FALSE, val |-> 0, class |-> "TypeError"]

\* NUM2INT, NUM2UINT, NUM2LL, NUM2ULL: a Float is truncated
NUM2INT(val) ==
    CASE val[1] = "Integer" -> Converted(val[2])
      [] val[1] = "Float" -> Converted(val[2] \div 10)
      [] OTHER -> NoConversion

NUM2DBL_rescaled(val) ==
    CASE val[1] \in {"Integer", "Float"} -> Converted(val[2] * 10)
      [] OTHER -> NoConversion
NUM2DBL(val) ==
    CASE val[1] = "Integer" -> Converted(val[2] * 10)
      [] val[1] = "Float" -> Converted(val[2])
      [] OTHER -> NoConversion

StringValueCStr(val) ==
    IF val[1] = "String" THEN Converted(CStr(val[2])) ELSE NoConversion

\* common.c:368-392: the conversion the slot's type tag selects
SlotConversion(type, val) ==
    CASE type \in {"INT", "UINT", "LLONG", "ULLONG"} -> NUM2INT(val)
      [] type = "DOUBLE" -> NUM2DBL(val)
      [] type = "BOOLEAN" -> Converted(IF val = Qtrue THEN 1 ELSE 0)
      [] type = "STRING" -> StringValueCStr(val)
      [] OTHER -> [ok |-> FALSE, val |-> 0, class |-> "ArgumentError"]

\* common.c:368-392: slot sl after val is written into it
SlotAssign_retag(sl, v) ==
    [sl EXCEPT !.value[Member(sl.type)] = v,
               !.type = IF sl.type = "UINT" THEN "INT" ELSE sl.type]
SlotAssign(sl, v) == [sl EXCEPT !.value[Member(sl.type)] = v]

\* The loop of ruby_libvirt_set_typed_parameters (common.c:362-393), from
\* slot i (1-based) on.  It yields the buffer as the loop leaves it and, when
\* a conversion raised, the class raised and the slot that raised.
RECURSIVE hash_to_params_from(_, _, _, _)
hash_to_params_from(input, params, nparams, i) ==
    IF i > nparams
      THEN [ok |-> TRUE, params |-> params, class |-> "none", at |-> 0]
    ELSE LET val == rb_hash_aref(input, params[i].field) IN
         IF val = Qnil
           THEN hash_to_params_from(input, params, nparams, i + 1)
           ELSE LET c == SlotConversion(params[i].type, val) IN
                IF ~c.ok
                  THEN [ok |-> FALSE, params |-> params, class |-> c.class,
                        at |-> i]
                  ELSE hash_to_params_from(input,
                           [params EXCEPT ![i] = SlotAssign(params[i], c.val)],
                           nparams, i + 1)

hash_to_params_lenient(input, params, nparams) ==
    [hash_to_params_from(input, params, nparams, 1) EXCEPT !.ok = TRUE]
hash_to_params(input, params, nparams) ==
    hash_to_params_from(input, params, nparams, 1)

ConversionMessage(class) ==
    IF class = "ArgumentError" THEN "Invalid parameter type"
    ELSE "no implicit conversion"

\* ruby_libvirt_set_typed_parameters (common.c:314-402).  countErr and n are
\* what nparams_cb reported, fetchErr and params what get_cb reported, and
\* commitErr what set_cb reported.  encoded is the buffer as the loop left it.
set_typed_parameters_short(input, countErr, n, fetchErr, params, commitErr) ==
    IF input[1] # "Hash"
      THEN [out |-> HostRaises(<<>>, "TypeError", "wrong argument type"),
            encoded |-> <<>>, at |-> 0]
    ELSE IF DOMAIN input[2] = {}
      THEN [out |-> Returns(<<>>, Qnil), encoded |-> <<>>, at |-> 0]
    ELSE IF countErr # NULL
      THEN [out |-> RetrieveError(<<"count">>, countErr),
            encoded |-> <<>>, at |-> 0]
    ELSE IF n = 0
      THEN [out |-> Returns(<<"count">>, Qnil), encoded |-> <<>>, at |-> 0]
    ELSE IF fetchErr # NULL
      THEN [out |-> RetrieveError(<<"count", "fetch">>, fetchErr),
            encoded |-> <<>>, at |-> 0]
    ELSE LET enc == hash_to_params(input[2], params, Len(params)) IN
         IF ~enc.ok
           THEN [out |-> HostRaises(<<"count", "fetch">>, enc.class,
                                    ConversionMessage(enc.class)),
                 encoded |-> enc.params, at |-> enc.at]
         ELSE IF commitErr # NULL
           THEN [out |-> RetrieveError(<<"count", "fetch", "commit">>,
                                       commitErr),
                 encoded |-> enc.params, at |-> 0]
         ELSE [out |-> Returns(<<"count", "fetch", "commit">>, Qnil),
               encoded |-> enc.params, at |-> 0]
set_typed_parameters(input, countErr, n, fetchErr, params, commitErr) ==
    IF input[1] # "Hash"
      THEN [out |-> HostRaises(<<>>, "TypeError", "wrong argument type"),
            encoded |-> <<>>, at |-> 0]
    ELSE IF DOMAIN input[2] = {}
      THEN [out |-> Returns(<<>>, Qnil), encoded |-> <<>>, at |-> 0]
    ELSE IF countErr # NULL
      THEN [out |-> RetrieveError(<<"count">>, countErr),
            encoded |-> <<>>, at |-> 0]
    ELSE IF fetchErr # NULL
      THEN [out |-> RetrieveError(<<"count", "fetch">>, fetchErr),
            encoded |-> <<>>, at |-> 0]
    ELSE LET enc == hash_to_params(input[2], params, Len(params)) IN
         IF ~enc.ok
           THEN [out |-> HostRaises(<<"count", "fetch">>, enc.class,
                                    ConversionMessage(enc.class)),
                 encoded |-> enc.params, at |-> enc.at]
         ELSE IF commitErr # NULL
           THEN [out |-> RetrieveError(<<"count", "fetch", "commit">>,
                                       commitErr),
                 encoded |-> enc.params, at |-> 0]
         ELSE [out |-> Returns(<<"count", "fetch", "commit">>, Qnil),
               encoded |-> enc.params, at |-> 0]

\* the update values a caller passes, and the maps made of them
HostValues ==
    {Qnil, INT2NUM(5), rb_float_new(25), <<"String", "b">>, Qtrue, Qfalse}
UpdateKeys == {"f0", "f1"}
StrayKey == "zz"            \* a key that names no field of any buffer
KnownMaps == UNION {[ks -> HostValues] : ks \in SUBSET UpdateKeys}
UpdateMaps ==
    KnownMaps \cup {rb_hash_aset(h, StrayKey, INT2NUM(5)) : h \in KnownMaps}
SetInputs == {<<"Hash", h>> : h \in UpdateMaps} \cup {Qnil}

Has(events, ev) == Count(events, ev) > 0

\* ruby_libvirt_assign_hash_and_flags (common.c:295-312).  An Array is
\* <<"Array", elements>>.  hash and flags are the out-parameters, left as
\* they were (nil here) when the function raises.
assign_hash_and_flags_argerror(in) ==
    IF in[1] = "Hash"
      THEN [out |-> Returns(<<>>, Qnil), hash |-> in, flags |-> INT2NUM(0)]
    ELSE IF in[1] = "Array" /\ Len(in[2]) = 2
      THEN [out |-> Returns(<<>>, Qnil), hash |-> in[2][1], flags |-> in[2][2]]
    ELSE [out |-> HostRaises(<<>>, "ArgumentError", "wrong number of arguments"),
          hash |-> Qnil, flags |-> Qnil]
assign_hash_and_flags(in) ==
    IF in[1] = "Hash"
      THEN [out |-> Returns(<<>>, Qnil), hash |-> in, flags |-> INT2NUM(0)]
    ELSE IF in[1] = "Array"
      THEN IF Len(in[2]) # 2
             THEN [out |-> HostRaises(<<>>, "ArgumentError",
                              "wrong number of arguments ("
                                  \o ToString(Len(in[2])) \o " for 1 or 2)"),
                   hash |-> Qnil, flags |-> Qnil]
             ELSE [out |-> Returns(<<>>, Qnil),
                   hash |-> in[2][1], flags |-> in[2][2]]
    ELSE [out |-> HostRaises(<<>>, "TypeError",
                             "wrong argument type (expected Hash or Array)"),
          hash |-> Qnil, flags |-> Qnil]

\* what a caller passes where params and flags are expected
ArgElements == {<<"Hash", rb_hash_new>>, INT2NUM(1), Qnil}
RECURSIVE ArgLists(_)
ArgLists(n) ==
    IF n = 0 THEN {<<>>}
    ELSE {Append(l, e) : l \in ArgLists(n - 1), e \in ArgElements}
AssignInputs ==
    {<<"Hash", h>> : h \in KnownMaps}
      \cup {<<"Array", l>> : l \in UNION {ArgLists(n) : n \in 0..MaxArgs}}
      \cup {Qnil, Qtrue, INT2NUM(5), <<"String", "b">>}

TPIdle ==
    [pc |-> "idle", op |-> "none", input |-> Qnil, countErr |-> NULL, n |-> 0,
     fetchErr |-> NULL, fetched |-> <<>>, commitErr |-> NULL,
     encoded |-> <<>>, committed |-> <<>>, visited |-> <<>>, at |-> 0,
     out |-> Returns(<<>>, Qnil), hash |-> Qnil, flags |-> Qnil]

\* a call of ruby_libvirt_get_typed_parameters
typed_parameters_get ==
    /\ tp.pc = "idle"
    /\ \E countErr \in CallbackNames, n \in 0..MaxParams,
          fetchErr \in CallbackNames :
         \E params \in Buffers(n) :
           LET res == get_typed_parameters(countErr, n, fetchErr, params)
               fetchedNow == Count(res.out.events, "fetch") > 0
           IN tp' = [TPIdle EXCEPT !.pc = "done", !.op = "get",
                        !.countErr = countErr,
                        !.n = IF countErr = NULL THEN n ELSE 0,
                        !.fetchErr = IF fetchedNow THEN fetchErr ELSE NULL,
                        !.fetched = IF fetchedNow /\ fetchErr = NULL
                                      THEN params ELSE <<>>,
                        !.visited = res.visited,
                        !.out = res.out]
    /\ UNCHANGED <<gl, la, nw, cs>>

\* a call of ruby_libvirt_set_typed_parameters
typed_parameters_set ==
    /\ tp.pc = "idle"
    /\ \E input \in SetInputs, countErr \in CallbackNames, n \in 0..MaxParams,
          fetchErr \in CallbackNames, commitErr \in CallbackNames :
         \E params \in Buffers(n) :
           LET res == set_typed_parameters(input, countErr, n, fetchErr,
                                           params, commitErr)
               ev == res.out.events
           IN tp' = [TPIdle EXCEPT !.pc = "done", !.op = "set",
                        !.input = input,
                        !.countErr = IF Has(ev, "count") THEN countErr ELSE NULL,
                        !.n = IF Has(ev, "count") /\ countErr = NULL
                                THEN n ELSE 0,
                        !.fetchErr = IF Has(ev, "fetch") THEN fetchErr ELSE NULL,
                        !.fetched = IF Has(ev, "fetch") /\ fetchErr = NULL
                                      THEN params ELSE <<>>,
                        !.encoded = res.encoded,
                        !.commitErr = IF Has(ev, "commit")
                                        THEN commitErr ELSE NULL,
                        !.committed = IF Has(ev, "commit")
                                        THEN res.encoded ELSE <<>>,
                        !.at = res.at,
                        !.out = res.out]
    /\ UNCHANGED <<gl, la, nw, cs>>

\* A get, then a set whose update map is the map the get returned, then a
\* second get: every callback succeeds, the set's get_cb fills the buffer the
\* first get saw and the second get's get_cb returns what set_cb was given.
typed_parameters_roundtrip ==
    /\ tp.pc = "idle"
    /\ \E n \in 1..MaxParams :
         \E params \in Buffers(n) :
           LET first == get_typed_parameters(NULL, n, NULL, params).out
               set == set_typed_parameters(first.val, NULL, n, NULL, params,
                                           NULL)
               second == get_typed_parameters(NULL, n, NULL, set.encoded).out
           IN /\ first.kind = "return"
              /\ set.out.kind = "return"
              /\ tp' = [TPIdle EXCEPT !.pc = "done", !.op = "roundtrip",
                           !.n = n,
                           !.fetched = params,
                           !.input = first.val,
                           !.encoded = set.encoded,
                           !.committed = set.encoded,
                           !.out = second]
    /\ UNCHANGED <<gl, la, nw, cs>>

\* a call of ruby_libvirt_assign_hash_and_flags
typed_parameters_assign ==
    /\ tp.pc = "idle"
    /\ \E in \in AssignInputs :
         LET res == assign_hash_and_flags(in) IN
         tp' = [TPIdle EXCEPT !.pc = "done", !.op = "assign", !.input = in,
                   !.out = res.out, !.hash = res.hash, !.flags = res.flags]
    /\ UNCHANGED <<gl, la, nw, cs>>

\* the caller takes the result; the next call starts afresh
typed_parameters_done ==
    /\ tp.pc = "done"
    /\ tp' = TPIdle
    /\ UNCHANGED <<gl, la, nw, cs>>

(***************************************************************************)
(* The specifications.  All start from the same state: no list function    *)
(* called, no call shape applied, a Network object just made by            *)
(* network_new.                                                            *)
(***************************************************************************)
InitList ==
    gl = GLIdle /\ la = LAIdle /\ nw = NWInit /\ cs = CSInit /\ tp = TPIdle

NextList ==
    \/ generate_list_call
    \/ generate_list_ary_new2
    \/ generate_list_str_new2
    \/ generate_list_store
    \/ generate_list_return
    \/ generate_list_exception

SpecList == InitList /\ [][NextList]_vars

InitListAll == InitList
SpecListAll == InitListAll /\ [][NextListAll]_vars

InitCall == InitList
SpecCall == InitCall /\ [][NextCall]_vars

\* C1: for every length n and every place a host-side failure is injected
\* (allocating the result array, converting entry i, storing entry i), when
\* the function has returned or the error has propagated each of the n native
\* entries has been freed exactly once, no entry is ever freed twice on the
\* way, and the outer array is never freed by the function.
C1_EachEntryFreedOnce ==
    /\ \A k \in 1..gl.num : gl.freed[k] <= 1
    /\ gl.listFreed = 0
    /\ gl.pc \in {"returned", "raised"} => \A k \in 1..gl.num : gl.freed[k] = 1

\* a failure injected at the store of the second of three entries, propagated.
C1_Witness ==
    /\ gl.pc = "raised"
    /\ gl.num = MaxNum
    /\ gl.failedAt = "store"
    /\ gl.i = 1
    /\ \A k \in 1..gl.num : gl.freed[k] = 1

Init == InitList

Next ==
    \/ libvirt_netw_undefine
    \/ libvirt_netw_create
    \/ libvirt_netw_update
    \/ libvirt_netw_destroy
    \/ libvirt_netw_name
    \/ libvirt_netw_uuid
    \/ libvirt_netw_xml_desc
    \/ libvirt_netw_bridge_name
    \/ libvirt_netw_autostart
    \/ libvirt_netw_autostart_set
    \/ libvirt_netw_free
    \/ libvirt_netw_active_p
    \/ libvirt_netw_persistent_p
    \/ network_finalize
    \/ network_new

Spec == Init /\ [][Next]_vars

NetOps ==
    {"undefine", "create", "update", "destroy", "name", "uuid", "xml_desc",
     "bridge_name", "autostart", "autostart=", "active?", "persistent?"}

\* C2 as stated: after a successful free, every later method call on the
\* object (undefine, create, update, destroy, name, uuid, xml_desc,
\* bridge_name, autostart, autostart=, active?, persistent?) fails with the
\* "has been freed" error and reaches no native function.
C2_AlwaysFreedError ==
    (nw.op \in NetOps /\ nw.entryPtr = <<>>) =>
      /\ nw.out.kind = "raise"
      /\ nw.out.exc.message = "Network has been freed"
      /\ nw.nativeArgs = <<>>
      /\ Count(nw.out.events, "native") = 0

\* C2 as amended: after a successful free, every later method call on the
\* object fails with an error and no native function is invoked, with the
\* nulled pointer or otherwise; the error is the "has been freed" error
\* whenever the call's own arguments are acceptable (a check of another
\* argument that runs before the object's pointer is read raises its own
\* error first).
C2_FreedNeverReachesNative ==
    /\ (nw.op \in NetOps /\ nw.entryPtr = <<>>) =>
          /\ nw.out.kind = "raise"
          /\ nw.nativeArgs = <<>>
          /\ Count(nw.out.events, "native") = 0
          /\ nw.argsOK =>
                /\ nw.out.exc.class = "ArgumentError"
                /\ nw.out.exc.message = "Network has been freed"
    /\ \A n \in DOMAIN nw.nativeArgs : nw.nativeArgs[n] # <<>>

\* a method called with acceptable arguments on a freed object
C2_Witness ==
    /\ nw.op = "xml_desc"
    /\ nw.entryPtr = <<>>
    /\ nw.released = 1
    /\ nw.argsOK
    /\ nw.out.exc.message = "Network has been freed"

\* C3 as stated: a second free on an object whose pointer a successful free
\* has nulled fails with an error.
C3_SecondFreeRaises ==
    (nw.op = "free" /\ nw.entryPtr = <<>>) => nw.out.kind = "raise"

\* C3 as amended: a second free on an object whose pointer a successful free
\* has nulled does nothing: it returns nil without raising, invokes no
\* native function and leaves the pointer null.
C3_SecondFreeIsNoOp ==
    (nw.op = "free" /\ nw.entryPtr = <<>>) =>
      /\ nw.out.kind = "return"
      /\ nw.out.val = <<"nil">>
      /\ nw.nativeArgs = <<>>
      /\ Count(nw.out.events, "native") = 0
      /\ nw.ptr = <<>>
      /\ nw.released = 1

\* free called on an object already freed
C3_Witness ==
    /\ nw.op = "free"
    /\ nw.entryPtr = <<>>
    /\ nw.released = 1
    /\ nw.out.kind = "return"

\* C4: over any explicit free calls followed by finalization of one object,
\* the native free function is never invoked on the pointer after a native
\* free of it has succeeded: a successful explicit free nulls the stored
\* pointer, a failed native free raises and leaves the pointer set, and the
\* finalizer frees only a pointer that is not null.
C4_NoFreeAfterRelease ==
    /\ nw.freeAfterRelease = 0
    /\ nw.released <= 1
    /\ nw.released = 1 => (nw.ptr = <<>> \/ ~nw.alive)
    /\ (nw.op = "free" /\ nw.entryPtr # <<>>) =>
          /\ nw.nativeArgs = <<nw.entryPtr>>
          /\ nw.r >= 0 => (nw.out.kind = "return" /\ nw.ptr = <<>>)
          /\ nw.r < 0 => (nw.out.kind = "raise" /\ nw.ptr = nw.entryPtr)
    /\ nw.op = "finalize" =>
          /\ nw.entryPtr = <<>> => nw.nativeArgs = <<>>
          /\ nw.entryPtr # <<>> => nw.nativeArgs = <<nw.entryPtr>>

\* the object is finalized after an explicit free succeeded
C4_Witness ==
    /\ nw.op = "finalize"
    /\ nw.entryPtr = <<>>
    /\ nw.released = 1
    /\ nw.nativeArgs = <<>>

NextParams ==
    \/ typed_parameters_get
    \/ typed_parameters_set
    \/ typed_parameters_roundtrip
    \/ typed_parameters_assign
    \/ typed_parameters_done

InitParams == InitList
SpecParams == InitParams /\ [][NextParams]_vars

\* the callbacks a call invoked, in the order it invoked them
Callbacks(events) ==
    LET IsCallback(ev) == ev \in {"count", "fetch", "commit"}
    IN SelectSeq(events, IsCallback)

\* some slot of the fetched buffer has an update value its kind cannot take
EncodeFails(input, fetched) ==
    /\ input[1] = "Hash"
    /\ \E i \in DOMAIN fetched :
         LET val == rb_hash_aref(input[2], fetched[i].field) IN
         val # Qnil /\ ~SlotConversion(fetched[i].type, val).ok

\* C11: a typed-parameter get or set invokes its callbacks in the order
\* countFn, fetchFn, then (set only) commitFn, each at most once; and when
\* countFn or fetchFn fails, or encoding an update value fails, the call
\* raises and commitFn is never invoked.
C11_CallbackOrder ==
    tp.pc = "done" /\ tp.op \in {"get", "set"} =>
      LET cb == Callbacks(tp.out.events) IN
      /\ Len(cb) <= 3
      /\ cb = SubSeq(<<"count", "fetch", "commit">>, 1, Len(cb))
      /\ tp.op = "get" => ~Has(cb, "commit")
      /\ (\/ tp.countErr # NULL
          \/ tp.fetchErr # NULL
          \/ EncodeFails(tp.input, tp.fetched))
           => tp.out.kind = "raise" /\ ~Has(cb, "commit")

C11_Witness ==
    /\ tp.pc = "done" /\ tp.op = "set"
    /\ EncodeFails(tp.input, tp.fetched)
    /\ tp.out.events = <<"count", "fetch", "raise">>

\* the count callback succeeded and reported no parameter
CountedZero ==
    /\ tp.pc = "done" /\ tp.op \in {"get", "set"}
    /\ Has(tp.out.events, "count") /\ tp.countErr = NULL /\ tp.n = 0

\* C12 as stated: on the read and the write path alike, when countFn reports
\* n = 0 the call returns without invoking fetchFn or commitFn.
C12_ZeroShortCircuits ==
    CountedZero =>
      /\ tp.out.kind = "return"
      /\ Callbacks(tp.out.events) = <<"count">>

\* C12, amended: when countFn reports n = 0 the read path returns an empty
\* map without invoking fetchFn; the write path has no such short-circuit
\* and goes on to invoke fetchFn and, unless fetchFn fails, commitFn with a
\* buffer of no slot.
C12_ZeroCount ==
    CountedZero =>
      /\ tp.op = "get" =>
           /\ Callbacks(tp.out.events) = <<"count">>
           /\ tp.out.kind = "return"
           /\ tp.out.val = <<"Hash", rb_hash_new>>
      /\ tp.op = "set" =>
           /\ Has(tp.out.events, "fetch")
           /\ tp.fetchErr = NULL =>
                Has(tp.out.events, "commit") /\ tp.committed = <<>>

C12_Witness ==
    /\ CountedZero /\ tp.op = "set"
    /\ tp.out.events = <<"count", "fetch", "commit", "return">>

\* the host value has the shape a slot of this kind takes; a numeric slot
\* takes any number
ShapeMatches(type, val) ==
    CASE type \in {"INT", "UINT", "LLONG", "ULLONG", "DOUBLE"} ->
           val[1] \in {"Integer", "Float"}
      [] type = "BOOLEAN" -> val \in {Qtrue, Qfalse}
      [] type = "STRING" -> val[1] = "String"
      [] OTHER -> FALSE

\* C13: in a set, an update value whose shape does not match the kind of the
\* slot it names (int, uint, llong, ullong, double, boolean or string) makes
\* the call raise a type-mismatch error; in particular a non-boolean value
\* for a boolean slot is rejected, not written.
C13_MismatchRejected ==
    tp.pc = "done" /\ tp.op = "set" /\ tp.input[1] = "Hash" =>
      \A i \in DOMAIN tp.fetched :
        LET val == rb_hash_aref(tp.input[2], tp.fetched[i].field) IN
        (/\ tp.fetched[i].type \in ParamKinds
         /\ val # Qnil
         /\ ~ShapeMatches(tp.fetched[i].type, val))
          => /\ tp.out.kind = "raise"
             /\ ~Has(tp.out.events, "commit")

UnionMembers == DOMAIN UnionJunk

\* C14: in a set, the buffer the encoding leaves, and so the buffer passed to
\* commitFn, has the length, the field names and the kind tags of the buffer
\* fetchFn returned; a slot the update map does not name keeps its fetched
\* value, and a slot it names is written in the union member of the kind
\* already in the slot, with the value converted for that kind.
C14_EncodeFrame ==
    tp.pc = "done" /\ tp.op = "set" =>
      /\ Has(tp.out.events, "commit") => tp.committed = tp.encoded
      /\ Len(tp.encoded) = Len(tp.fetched)
      /\ \A i \in DOMAIN tp.fetched :
           LET old == tp.fetched[i]
               new == tp.encoded[i]
               val == rb_hash_aref(tp.input[2], old.field)
           IN /\ new.field = old.field
              /\ new.type = old.type
              /\ val = Qnil => new = old
              /\ \A m \in UnionMembers \ {Member(old.type)} :
                   new.value[m] = old.value[m]
              /\ (val # Qnil /\ Has(tp.out.events, "commit")) =>
                   new.value[Member(old.type)] =
                       SlotConversion(old.type, val).val

C14_Witness ==
    /\ tp.pc = "done" /\ tp.op = "set"
    /\ Has(tp.out.events, "commit")
    /\ Len(tp.fetched) = 2
    /\ tp.fetched[1].type = "UINT"
    /\ tp.committed[1].value.ui = 5 /\ tp.fetched[1].value.ui = 42
    /\ rb_hash_aref(tp.input[2], tp.fetched[2].field) = Qnil
    /\ tp.committed[2] = tp.fetched[2]

\* C15: for a buffer whose kinds are all recognized, decoding it, encoding
\* the decoded map over the same buffer and decoding the result gives the
\* first map again, and the encoding changes no field name and no kind tag.
C15_RoundTrip ==
    tp.pc = "done" /\ tp.op = "roundtrip" =>
      /\ tp.out.kind = "return"
      /\ tp.out.val = tp.input
      /\ DOMAIN tp.out.val[2] = {tp.fetched[i].field : i \in DOMAIN tp.fetched}
      /\ Len(tp.encoded) = Len(tp.fetched)
      /\ \A i \in DOMAIN tp.fetched :
           /\ tp.encoded[i].field = tp.fetched[i].field
           /\ tp.encoded[i].type = tp.fetched[i].type

\* a round trip that changes the buffer (a boolean of 2 comes back as 1) and
\* carries a double
C15_Witness ==
    /\ tp.pc = "done" /\ tp.op = "roundtrip"
    /\ Len(tp.fetched) = 2
    /\ tp.fetched[1].type = "BOOLEAN" /\ tp.fetched[1].value.b = 2
    /\ tp.encoded[1].value.b = 1
    /\ tp.fetched[2].type = "DOUBLE"
    /\ tp.out.val[2]["f1"] = rb_float_new(15)

\* the slots of a buffer whose kind tag is not one the binding knows
Unrecognized(params) == {i \in DOMAIN params : params[i].type \notin ParamKinds}

\* the indices 1..k in order
UpTo(k) == [i \in 1..k |-> i]

\* C16: decoding visits the entries once each in index order and makes one
\* map entry per field, keyed by the field name, its value read from the
\* union member the kind tag selects (a boolean of 0 is false, any other
\* true); a kind tag that is not recognized makes the whole decode fail with
\* the invalid-parameter-type error.
C16_Decode ==
    tp.pc = "done" /\ tp.op = "get" /\ tp.fetched # <<>> =>
      LET params == tp.fetched
          bad == Unrecognized(params)
      IN IF bad = {}
           THEN /\ tp.out.kind = "return"
                /\ tp.visited = UpTo(Len(params))
                /\ tp.out.val[1] = "Hash"
                /\ DOMAIN tp.out.val[2] =
                       {params[i].field : i \in DOMAIN params}
                /\ \A i \in DOMAIN params :
                     LET v == params[i].value[Member(params[i].type)]
                         got == tp.out.val[2][params[i].field]
                     IN CASE params[i].type = "DOUBLE" -> got = <<"Float", v>>
                          [] params[i].type = "BOOLEAN" ->
                               got = IF v = 0 THEN Qfalse ELSE Qtrue
                          [] params[i].type = "STRING" ->
                               got = <<"String", v[1]>>
                          [] OTHER -> got = <<"Integer", v>>
           ELSE LET k == CHOOSE i \in bad : \A j \in bad : i <= j IN
                /\ tp.out.kind = "raise"
                /\ tp.out.exc.class = "ArgumentError"
                /\ tp.out.exc.message = "Invalid parameter type"
                /\ tp.visited = UpTo(k)

C16_Witness ==
    /\ tp.pc = "done" /\ tp.op = "get"
    /\ Len(tp.fetched) = 2
    /\ tp.fetched[1].type = "BOOLEAN" /\ tp.fetched[1].value.b = 2
    /\ tp.fetched[2].type = "UINT"
    /\ tp.visited = <<1, 2>>
    /\ tp.out.val = <<"Hash", [f \in {"f0", "f1"} |->
                                  IF f = "f0" THEN Qtrue ELSE INT2NUM(42)]>>

Parsed == tp.pc = "done" /\ tp.op = "assign"

\* C17 as stated: the params-plus-flags parser accepts a map or a list of
\* two elements and rejects anything else with ArgumentError.
C17_RejectsWithArgumentError ==
    (Parsed /\ tp.input[1] # "Hash"
            /\ ~(tp.input[1] = "Array" /\ Len(tp.input[2]) = 2))
      => tp.out.kind = "raise" /\ tp.out.exc.class = "ArgumentError"

\* C17, amended: the parser accepts a map (flags 0) or a list of two elements
\* (element 0 the params, element 1 the flags); it rejects a list of any
\* other length with ArgumentError and a value that is neither a map nor a
\* list with TypeError.
C17_ParamsAndFlags ==
    Parsed =>
      CASE tp.input[1] = "Hash" ->
             /\ tp.out.kind = "return"
             /\ tp.hash = tp.input /\ tp.flags = INT2NUM(0)
        [] tp.input[1] = "Array" /\ Len(tp.input[2]) = 2 ->
             /\ tp.out.kind = "return"
             /\ tp.hash = tp.input[2][1] /\ tp.flags = tp.input[2][2]
        [] tp.input[1] = "Array" /\ Len(tp.input[2]) # 2 ->
             tp.out.kind = "raise" /\ tp.out.exc.class = "ArgumentError"
        [] OTHER ->
             tp.out.kind = "raise" /\ tp.out.exc.class = "TypeError"

C17_Witness ==
    /\ Parsed /\ tp.input = INT2NUM(5)
    /\ tp.out.kind = "raise" /\ tp.out.exc.class = "TypeError"
    /\ tp.out.exc.message = "wrong argument type (expected Hash or Array)"

\* every key of the update map h names no field of the buffer, or has the
\* value nil
OnlyIgnoredKeys(h, params) ==
    \A i \in DOMAIN params :
      params[i].field \notin DOMAIN h \/ h[params[i].field] = Qnil

\* C18: in a set, an update key that names no field and a key whose value is
\* nil are ignored: they raise no error and change no slot, and commitFn is
\* still invoked, with the buffer as fetched.  An empty update map returns
\* nil without invoking countFn, fetchFn or commitFn.
C18_IgnoredKeys ==
    tp.pc = "done" /\ tp.op = "set" /\ tp.input[1] = "Hash" =>
      LET h == tp.input[2] IN
      /\ DOMAIN h = {} =>
           /\ tp.out.kind = "return" /\ tp.out.val = Qnil
           /\ Callbacks(tp.out.events) = <<>>
      /\ (/\ DOMAIN h # {}
          /\ Callbacks(tp.out.events) # <<>>
          /\ tp.countErr = NULL /\ tp.fetchErr = NULL
          /\ OnlyIgnoredKeys(h, tp.fetched))
           => /\ Callbacks(tp.out.events) = <<"count", "fetch", "commit">>
              /\ tp.committed = tp.fetched
              /\ tp.commitErr = NULL => tp.out.kind = "return"
              /\ tp.out.kind = "raise" => tp.out.exc.class = e_RetrieveError

C18_Witness ==
    /\ tp.pc = "done" /\ tp.op = "set"
    /\ tp.input = <<"Hash", [k \in {"f0", StrayKey} |->
                               IF k = "f0" THEN Qnil ELSE INT2NUM(5)]>>
    /\ Len(tp.fetched) = 2
    /\ tp.committed = tp.fetched
    /\ tp.out.events = <<"count", "fetch", "commit", "return">>

====
